---- MODULE Spec2Model ----
(***************************************************************************)
(* Model of package git of joshdk/pull: New opens a repository and         *)
(* captures its resolved HEAD reference; Branch, Files, Message and Tags   *)
(* answer from that handle; Report assembles a Status from the four.       *)
(*                                                                         *)
(* Strings are sequences of byte values, so that prefixes, base names and  *)
(* the byte-wise order of sort.Strings are computed and not assumed.       *)
(* The on-disk repository (objects, references, HEAD, working directory)   *)
(* is the environment: git commands change it at any time.                 *)
(***************************************************************************)
EXTENDS Integers, Sequences, FiniteSets, TLC

\* ------------------------------------------------------------------ bounds

\* Commit objects ever created in the repository.
MaxCommits == 3

\* git commands run in the repository after git init.
MaxOps == 4

\* Of these, the commands that run while a handle is open.
MaxRaces == 1

\* ----------------------------------------------------------------- strings

\* "refs/heads/"
refsHeads == <<114, 101, 102, 115, 47, 104, 101, 97, 100, 115, 47>>

\* "refs/tags/"
refsTags == <<114, 101, 102, 115, 47, 116, 97, 103, 115, 47>>

\* "refs/remotes/"
refsRemotes == <<114, 101, 102, 115, 47, 114, 101, 109, 111, 116, 101, 115, 47>>

\* "HEAD"
HEADName == <<72, 69, 65, 68>>

\* Branch short names: "dev", "f/t".
BranchNames == {<<100, 101, 118>>, <<102, 47, 116>>}

\* The branch HEAD points at after git init: "dev".
InitialBranch == <<100, 101, 118>>

\* Tag short names: "v1", "v0".
TagNames == {<<118, 49>>, <<118, 48>>}

\* File paths: "b/x", "a/x", "y".
Paths == {<<98, 47, 120>>, <<97, 47, 120>>, <<121>>}

HasPrefix(s, p) == Len(s) >= Len(p) /\ SubSeq(s, 1, Len(p)) = p

TrimPrefix(s, p) == SubSeq(s, Len(p) + 1, Len(s))

\* Byte-wise lexicographic order, the order of Go's string comparison.
RECURSIVE LexLess(_, _)
LexLess(a, b) ==
    IF b = <<>> THEN FALSE
    ELSE IF a = <<>> THEN TRUE
    ELSE IF Head(a) # Head(b) THEN Head(a) < Head(b)
    ELSE LexLess(Tail(a), Tail(b))

RECURSIVE Insert(_, _)
Insert(sorted, s) ==
    IF sorted = <<>> THEN <<s>>
    ELSE IF LexLess(s, Head(sorted)) THEN <<s>> \o sorted
    ELSE <<Head(sorted)>> \o Insert(Tail(sorted), s)

\* sort.Strings: ascending, duplicates kept.
RECURSIVE SortStrings(_)
SortStrings(list) ==
    IF list = <<>> THEN <<>>
    ELSE Insert(SortStrings(Tail(list)), Head(list))

\* The elements of a set in some order (a Go map's iteration order, the
\* order in which a reference iterator yields).
RECURSIVE Enumerate(_)
Enumerate(S) ==
    IF S = {} THEN <<>>
    ELSE LET e == CHOOSE x \in S : \A y \in S : y = x \/ LexLess(y, x)
         IN <<e>> \o Enumerate(S \ {e})

Range(f) == {f[i] : i \in DOMAIN f}

\* ------------------------------------------------------------------- trees

\* A tree maps every path to its blob (0: the path is absent).
EmptyTree == [p \in Paths |-> 0]

\* The snapshots that the working directory takes, each with the message
\* it is committed under: no files "m\n"; a/x and y " m\n"; a/x, b/x and an
\* edited y "m\n".
Edits ==
    { [tree |-> EmptyTree, message |-> <<109, 10>>],
      [tree |-> [p \in Paths |-> IF p = <<98, 47, 120>> THEN 0 ELSE 1],
       message |-> <<32, 109, 10>>],
      [tree |-> [p \in Paths |-> IF p = <<121>> THEN 2 ELSE 1],
       message |-> <<109, 10>>] }

Trees == {e.tree : e \in Edits}

\* tree.Diff: the changes from tree a to tree b in path order, one per path
\* whose blob differs. A change carries the file it came from and the file
\* it became; change.Files() names each by its entry in the tree that holds
\* it, which is the last element of the path.
BaseName(path) ==
    LET slashes == {i \in 1..Len(path) : path[i] = 47}
        last == IF slashes = {} THEN 0
                ELSE CHOOSE i \in slashes : \A j \in slashes : j <= i
    IN SubSeq(path, last + 1, Len(path))

Diff(a, b) ==
    LET changed == {p \in Paths : a[p] # b[p]}
        order == Enumerate(changed)
    IN [i \in 1..Len(order) |->
           [path |-> order[i],
            hasFrom |-> a[order[i]] # 0,
            hasTo |-> b[order[i]] # 0,
            fromName |-> BaseName(order[i]),
            toName |-> BaseName(order[i])]]

\* A nil *object.Tree.
NilTree == <<>>

\* -------------------------------------------------------------- repository

VARIABLES
    exists,      \* the path holds a git repository
    commits,     \* commit id -> [tree, parents, message], the stored commits
    made,        \* commit objects created so far
    tagObjects,  \* annotated-tag object id -> the commit id it tags
    refs,        \* full reference name -> hash
    HEAD,        \* .git/HEAD: symbolic (to a reference name) or a hash
    worktree,    \* the working directory's files
    reporter,    \* the *Repository New returned, or NilRepository
    err,         \* the error New returned ("" is nil)
    pc,          \* the caller's position
    calls,       \* the queries Report has invoked, each with its outcome
    status,      \* the Status Report returned
    ops,         \* git commands run after git init
    races        \* of these, the ones run since the handle was opened

disk == <<exists, commits, made, tagObjects, refs, HEAD, worktree>>

vars == <<exists, commits, made, tagObjects, refs, HEAD, worktree,
          reporter, err, pc, calls, status, ops, races>>

CommitHash(c) == <<"commit", c>>

TagHash(t) == <<"tag", t>>

SymbolicHEAD(name) == [symbolic |-> TRUE, target |-> name, hash |-> <<"none", 0>>]

DetachedHEAD(h) == [symbolic |-> FALSE, target |-> <<>>, hash |-> h]

\* The commit a hash leads to: itself, or the commit an annotated tag tags.
Peel(h) == IF h[1] = "tag" THEN tagObjects[h[2]] ELSE h[2]

\* The commit the repository's HEAD is at, 0 when there is none.
HeadCommit ==
    IF ~exists THEN 0
    ELSE IF ~HEAD.symbolic THEN Peel(HEAD.hash)
    ELSE IF HEAD.target \in DOMAIN refs THEN Peel(refs[HEAD.target])
    ELSE 0

RECURSIVE Ancestors(_)
Ancestors(S) ==
    LET next == S \cup UNION {Range(commits[c].parents) : c \in S \cap DOMAIN commits}
    IN IF next = S THEN S ELSE Ancestors(next)

\* Every git command runs before the program ends; one that runs while a
\* handle is open races with the queries.
Command ==
    /\ pc \in {"start", "open"}
    /\ ops < MaxOps
    /\ ops' = ops + 1
    /\ IF pc = "open"
       THEN races < MaxRaces /\ races' = races + 1
       ELSE races' = races

Program == <<reporter, err, pc, calls, status>>

\* git init
GitInit ==
    /\ ~exists
    /\ exists' = TRUE
    /\ pc = "start"
    /\ HEAD' = SymbolicHEAD(refsHeads \o InitialBranch)
    /\ UNCHANGED <<commits, made, tagObjects, refs, worktree, Program, ops, races>>

\* touch, edit or remove files in the working directory
Touch(t) ==
    /\ exists
    /\ t # worktree
    /\ worktree' = t
    /\ Command
    /\ UNCHANGED <<exists, commits, made, tagObjects, refs, HEAD, Program>>

\* Store a commit and move the checked-out branch (or the detached HEAD) to it.
StoreCommit(tree, parents, message) ==
    LET c == made + 1 IN
    /\ made < MaxCommits
    /\ made' = c
    /\ commits' = [d \in DOMAIN commits \cup {c} |->
                      IF d = c
                      THEN [tree |-> tree, parents |-> parents, message |-> message]
                      ELSE commits[d]]
    /\ IF HEAD.symbolic
       THEN /\ refs' = [n \in DOMAIN refs \cup {HEAD.target} |->
                           IF n = HEAD.target THEN CommitHash(c) ELSE refs[n]]
            /\ HEAD' = HEAD
       ELSE /\ HEAD' = DetachedHEAD(CommitHash(c))
            /\ refs' = refs

\* edit the files to tree; git add --all; git commit --allow-empty -m message
Commit(tree, message) ==
    /\ exists
    /\ StoreCommit(tree, IF HeadCommit = 0 THEN <<>> ELSE <<HeadCommit>>, message)
    /\ worktree' = tree
    /\ Command
    /\ UNCHANGED <<exists, tagObjects, Program>>

\* git merge --no-ff other, the merge resolved to tree
Merge(other, tree, message) ==
    /\ exists
    /\ HeadCommit # 0
    /\ other \in DOMAIN commits
    /\ other \notin Ancestors({HeadCommit})
    /\ StoreCommit(tree, <<HeadCommit, other>>, message)
    /\ worktree' = tree
    /\ Command
    /\ UNCHANGED <<exists, tagObjects, Program>>

\* git checkout -b branch
CheckoutNew(branch) ==
    /\ exists
    /\ HeadCommit # 0
    /\ refsHeads \o branch \notin DOMAIN refs
    /\ refs' = [n \in DOMAIN refs \cup {refsHeads \o branch} |->
                   IF n = refsHeads \o branch THEN CommitHash(HeadCommit) ELSE refs[n]]
    /\ HEAD' = SymbolicHEAD(refsHeads \o branch)
    /\ Command
    /\ UNCHANGED <<exists, commits, made, tagObjects, worktree, Program>>

\* git checkout -f branch
CheckoutBranch(branch) ==
    /\ exists
    /\ refsHeads \o branch \in DOMAIN refs
    /\ HEAD # SymbolicHEAD(refsHeads \o branch)
    /\ HEAD' = SymbolicHEAD(refsHeads \o branch)
    /\ worktree' = commits[Peel(refs[refsHeads \o branch])].tree
    /\ Command
    /\ UNCHANGED <<exists, commits, made, tagObjects, refs, Program>>

\* git checkout -f <tag or commit>: HEAD holds the commit's hash
CheckoutDetached(c) ==
    /\ exists
    /\ c \in DOMAIN commits
    /\ HEAD # DetachedHEAD(CommitHash(c))
    /\ HEAD' = DetachedHEAD(CommitHash(c))
    /\ worktree' = commits[c].tree
    /\ Command
    /\ UNCHANGED <<exists, commits, made, tagObjects, refs, Program>>

\* git checkout --orphan branch
CheckoutOrphan(branch) ==
    /\ exists
    /\ HeadCommit # 0
    /\ refsHeads \o branch \notin DOMAIN refs
    /\ HEAD' = SymbolicHEAD(refsHeads \o branch)
    /\ Command
    /\ UNCHANGED <<exists, commits, made, tagObjects, refs, worktree, Program>>

\* git tag name: a reference to the HEAD commit itself
TagLight(name) ==
    /\ exists
    /\ HeadCommit # 0
    /\ refsTags \o name \notin DOMAIN refs
    /\ refs' = [n \in DOMAIN refs \cup {refsTags \o name} |->
                   IF n = refsTags \o name THEN CommitHash(HeadCommit) ELSE refs[n]]
    /\ Command
    /\ UNCHANGED <<exists, commits, made, tagObjects, HEAD, worktree, Program>>

\* git tag -a name: a tag object for the HEAD commit, and a reference to it
TagAnnotated(name) ==
    LET t == Cardinality(DOMAIN tagObjects) + 1 IN
    /\ exists
    /\ HeadCommit # 0
    /\ refsTags \o name \notin DOMAIN refs
    /\ tagObjects' = [u \in DOMAIN tagObjects \cup {t} |->
                         IF u = t THEN HeadCommit ELSE tagObjects[u]]
    /\ refs' = [n \in DOMAIN refs \cup {refsTags \o name} |->
                   IF n = refsTags \o name THEN TagHash(t) ELSE refs[n]]
    /\ Command
    /\ UNCHANGED <<exists, commits, made, HEAD, worktree, Program>>

\* The repository becomes the shallow copy that git clone --depth 1 makes of
\* it: only the commits that references and HEAD lead to directly are stored.
Tips ==
    {Peel(refs[n]) : n \in DOMAIN refs}
    \cup (IF HEAD.symbolic THEN {} ELSE {Peel(HEAD.hash)})

Shallow ==
    /\ exists
    /\ DOMAIN commits \ Tips # {}
    /\ commits' = [c \in DOMAIN commits \cap Tips |-> commits[c]]
    /\ Command
    /\ UNCHANGED <<exists, made, tagObjects, refs, HEAD, worktree, Program>>

\* ----------------------------------------------------------------- package

NilRepository == [open |-> FALSE, head |-> [name |-> <<>>, hash |-> <<"none", 0>>]]

NoStatus == [Branch |-> <<>>, Files |-> <<>>, Message |-> <<>>, Tags |-> <<>>]

\* git.PlainOpen: fails where there is no repository.
PlainOpen == IF exists THEN "" ELSE "repository does not exist"

\* Repository.Head of the library: HEAD itself when it holds a hash, else the
\* reference it names, which must exist.
ResolveHead ==
    IF ~HEAD.symbolic
    THEN [err |-> "", ref |-> [name |-> HEADName, hash |-> HEAD.hash]]
    ELSE IF HEAD.target \in DOMAIN refs
    THEN [err |-> "", ref |-> [name |-> HEAD.target, hash |-> refs[HEAD.target]]]
    ELSE [err |-> "reference not found", ref |-> NilRepository.head]

\* ReferenceName.IsBranch
IsBranch(name) == HasPrefix(name, refsHeads)

\* ReferenceName.Short: the name without its refs/tags/, refs/heads/ or
\* refs/remotes/ prefix.
Short(name) ==
    IF HasPrefix(name, refsTags) THEN TrimPrefix(name, refsTags)
    ELSE IF HasPrefix(name, refsHeads) THEN TrimPrefix(name, refsHeads)
    ELSE IF HasPrefix(name, refsRemotes) THEN TrimPrefix(name, refsRemotes)
    ELSE name

\* The outcome of a query: the value it returns, or the panic it raises.
Value(v) == [panic |-> "", value |-> v]

Panic(message) == [panic |-> message, value |-> <<>>]

\* repo.CommitObject: the hash must be that of a stored commit.
HasCommit(h) == h[1] = "commit" /\ h[2] \in DOMAIN commits

\* Branch without the IsBranch test.
BranchOfAnyReference(repo) == Short(repo.head.name)

Branch(repo) ==
    IF IsBranch(repo.head.name) THEN Short(repo.head.name) ELSE <<>>

\* filesTouched appending each change's names to the list, without the set.
filesTouchedNoFileset(parent, child) ==
    LET changes == IF parent = NilTree THEN Diff(child, EmptyTree) ELSE Diff(parent, child)
        RECURSIVE Names(_)
        Names(i) ==
            IF i > Len(changes) THEN <<>>
            ELSE (IF changes[i].hasFrom THEN <<changes[i].fromName>> ELSE <<>>)
                 \o (IF changes[i].hasTo THEN <<changes[i].toName>> ELSE <<>>)
                 \o Names(i + 1)
    IN SortStrings(Names(1))

filesTouched(parent, child) ==
    LET changes == IF parent = NilTree THEN Diff(child, EmptyTree) ELSE Diff(parent, child)
        fileset == {changes[i].fromName : i \in {j \in DOMAIN changes : changes[j].hasFrom}}
                   \cup {changes[i].toName : i \in {j \in DOMAIN changes : changes[j].hasTo}}
    IN SortStrings(Enumerate(fileset))

\* The commit's own tree and a stored parent's tree are always readable in
\* the repository modelled, so of the panics of Files only two can occur.
Files(repo) ==
    IF ~HasCommit(repo.head.hash) THEN Panic("failed to get HEAD commit")
    ELSE LET headObject == commits[repo.head.hash[2]] IN
         IF headObject.parents = <<>>
         THEN Value(filesTouched(NilTree, headObject.tree))
         ELSE IF headObject.parents[1] \notin DOMAIN commits
         THEN Panic("unknown error")
         ELSE Value(filesTouched(commits[headObject.parents[1]].tree, headObject.tree))

\* strings.TrimSpace, for the blanks the messages hold: space, tab, LF, CR.
RECURSIVE TrimLeft(_)
TrimLeft(str) ==
    IF str # <<>> /\ Head(str) \in {9, 10, 13, 32} THEN TrimLeft(Tail(str)) ELSE str

RECURSIVE TrimRight(_)
TrimRight(str) ==
    IF str # <<>> /\ str[Len(str)] \in {9, 10, 13, 32}
    THEN TrimRight(SubSeq(str, 1, Len(str) - 1))
    ELSE str

\* Message returning the trimmed message.
MessageTrimmed(repo) ==
    IF ~HasCommit(repo.head.hash) THEN Panic("failed to get commit")
    ELSE Value(TrimLeft(TrimRight(commits[repo.head.hash[2]].message)))

Message(repo) ==
    IF ~HasCommit(repo.head.hash) THEN Panic("failed to get commit")
    ELSE Value(commits[repo.head.hash[2]].message)

Tags(repo) ==
    LET iter == Enumerate({n \in DOMAIN refs : HasPrefix(n, refsTags)})
        hit == {i \in DOMAIN iter : refs[iter[i]] = repo.head.hash}
        RECURSIVE Collect(_)
        Collect(i) ==
            IF i > Len(iter) THEN <<>>
            ELSE (IF i \in hit THEN <<Short(iter[i])>> ELSE <<>>) \o Collect(i + 1)
    IN SortStrings(Collect(1))

\* New going on after Head fails.
NewIgnoringHeadError ==
    /\ pc = "start"
    /\ IF PlainOpen # ""
       THEN reporter' = NilRepository /\ err' = PlainOpen /\ pc' = "failed"
       ELSE /\ reporter' = [open |-> TRUE, head |-> ResolveHead.ref]
            /\ err' = ""
            /\ pc' = "open"
    /\ calls' = <<>>
    /\ status' = NoStatus
    /\ UNCHANGED <<disk, ops, races>>

\* New calling git.PlainInit where it calls git.PlainOpen.
NewInitialising ==
    /\ pc = "start"
    /\ exists' = TRUE
    /\ IF ResolveHead.err # ""
       THEN reporter' = NilRepository /\ err' = ResolveHead.err /\ pc' = "failed"
       ELSE /\ reporter' = [open |-> TRUE, head |-> ResolveHead.ref]
            /\ err' = ""
            /\ pc' = "open"
    /\ calls' = <<>>
    /\ status' = NoStatus
    /\ UNCHANGED <<commits, made, tagObjects, refs, HEAD, worktree, ops, races>>

\* New(path)
New ==
    /\ pc = "start"
    /\ IF PlainOpen # ""
       THEN reporter' = NilRepository /\ err' = PlainOpen /\ pc' = "failed"
       ELSE IF ResolveHead.err # ""
       THEN reporter' = NilRepository /\ err' = ResolveHead.err /\ pc' = "failed"
       ELSE /\ reporter' = [open |-> TRUE, head |-> ResolveHead.ref]
            /\ err' = ""
            /\ pc' = "open"
    /\ calls' = <<>>
    /\ status' = NoStatus
    /\ UNCHANGED <<disk, ops, races>>

\* Report with Files and Tags exchanged in the literal.
ReportOrderExchanged == <<"Branch", "Tags", "Message", "Files">>

\* The queries in the order Report's composite literal evaluates them; the
\* literal is positional, so the i-th result becomes the i-th field of Status.
ReportOrder == <<"Branch", "Files", "Message", "Tags">>

Query(name, repo) ==
    CASE name = "Branch" -> Value(Branch(repo))
      [] name = "Files" -> Files(repo)
      [] name = "Message" -> Message(repo)
      [] name = "Tags" -> Value(Tags(repo))

\* One step of Report(reporter): the next query of the literal is invoked.
\* A panic unwinds Report; the fourth result completes the Status, which
\* Report returns.
Call(name) ==
    /\ pc = "open"
    /\ Len(calls) < Len(ReportOrder)
    /\ ReportOrder[Len(calls) + 1] = name
    /\ LET out == Query(name, reporter)
           done == Append(calls, [query |-> name, panic |-> out.panic, value |-> out.value])
       IN /\ calls' = done
          /\ IF out.panic # ""
             THEN pc' = "panicked" /\ status' = NoStatus
             ELSE IF Len(done) < Len(ReportOrder)
             THEN pc' = "open" /\ status' = NoStatus
             ELSE /\ pc' = "returned"
                  /\ status' = [Branch |-> done[1].value, Files |-> done[2].value,
                                Message |-> done[3].value, Tags |-> done[4].value]
    /\ UNCHANGED <<disk, reporter, err, ops, races>>

CallBranch == Call("Branch")

CallFiles == Call("Files")

CallMessage == Call("Message")

CallTags == Call("Tags")

Init ==
    /\ exists = FALSE
    /\ commits = <<>>
    /\ made = 0
    /\ tagObjects = <<>>
    /\ refs = <<>>
    /\ HEAD = SymbolicHEAD(refsHeads \o InitialBranch)
    /\ worktree = EmptyTree
    /\ reporter = NilRepository
    /\ err = ""
    /\ pc = "start"
    /\ calls = <<>>
    /\ status = NoStatus
    /\ ops = 0
    /\ races = 0

Next ==
    \/ GitInit
    \/ \E t \in Trees : Touch(t)
    \/ \E e \in Edits : Commit(e.tree, e.message)
    \/ \E c \in 1..MaxCommits, e \in Edits : Merge(c, e.tree, e.message)
    \/ \E b \in BranchNames : CheckoutNew(b)
    \/ \E b \in BranchNames : CheckoutBranch(b)
    \/ \E c \in 1..MaxCommits : CheckoutDetached(c)
    \/ \E b \in BranchNames : CheckoutOrphan(b)
    \/ \E n \in TagNames : TagLight(n)
    \/ \E n \in TagNames : TagAnnotated(n)
    \/ Shallow
    \/ New
    \/ CallBranch
    \/ CallFiles
    \/ CallMessage
    \/ CallTags

Spec == Init /\ [][Next]_vars

\* ------------------------------------------------------------------ claims

StrictlyAscending(list) ==
    \A i \in 1..(Len(list) - 1) : LexLess(list[i], list[i + 1])

\* The commit the handle captured.
Captured == reporter.head.hash[2]

\* The paths whose blob in commit c differs from the one in c's first
\* parent, or from nothing when c has no parent.
ChangedPaths(c) ==
    LET base == IF commits[c].parents = <<>> THEN EmptyTree
                ELSE commits[commits[c].parents[1]].tree
    IN {p \in Paths : commits[c].tree[p] # base[p]}

\* The short names of the tags, lightweight or annotated, on commit c.
TagsOn(c) ==
    {TrimPrefix(n, refsTags) : n \in {m \in DOMAIN refs : HasPrefix(m, refsTags)
                                                         /\ Peel(refs[m]) = c}}

\* A Status was returned and no git command ran since New.
Quiet == pc = "returned" /\ races = 0

\* C1: the Files list and the Tags list of a returned Status are each
\* strictly ascending in byte order: sorted, no entry twice.
C1_ListsStrictlyAscending ==
    pc = "returned" =>
        StrictlyAscending(status.Files) /\ StrictlyAscending(status.Tags)

C1_Witness ==
    pc = "returned" /\ Len(status.Files) >= 2 /\ Len(status.Tags) >= 2

\* C2: Branch returned the empty string exactly when the reference New
\* resolved is not under refs/heads/; for a branch it returned the
\* reference's name after refs/heads/, which is a branch name and not empty.
C2_BranchEmptyIffNotBranch ==
    (calls # <<>> /\ calls[1].query = "Branch") =>
        LET b == calls[1].value
            isBranch == HasPrefix(reporter.head.name, refsHeads)
        IN /\ (b = <<>>) <=> ~isBranch
           /\ isBranch => (refsHeads \o b = reporter.head.name /\ b \in BranchNames)

C2_Witness ==
    /\ pc = "returned"
    /\ status.Branch = <<>>
    /\ reporter.head.name = HEADName
    /\ \E n \in DOMAIN refs : HasPrefix(n, refsHeads)

\* C3 (as claimed): with no command since New, Tags is exactly the short
\* names of all tags on the HEAD commit, lightweight or annotated.
C3_TagsAreTheTagsOnHead ==
    Quiet => Range(status.Tags) = TagsOn(HeadCommit)

\* C4 (as claimed): with no command since New, Files is exactly the paths
\* that differ between the HEAD commit's tree and its parent's tree (the
\* empty tree when there is no parent), each by its full path.
C4_FilesAreTheChangedPaths ==
    Quiet => Range(status.Files) = ChangedPaths(HeadCommit)

\* C5: New fails with "reference not found" and no Repository when the
\* repository's HEAD leads to no commit, and returns a Repository and a nil
\* error when it leads to one.
C5_NewFailsIffNoHeadCommit ==
    /\ pc = "failed" =>
          /\ HeadCommit = 0
          /\ reporter = NilRepository
          /\ err # ""
          /\ exists => err = "reference not found"
    /\ (pc = "open" /\ races = 0) =>
          /\ HeadCommit # 0
          /\ reporter.open
          /\ err = ""
          /\ reporter.head.hash = CommitHash(HeadCommit)

C5_Witness ==
    pc = "failed" /\ exists /\ made > 0 /\ err = "reference not found"

\* C6: with no command since New, Message is the stored message of the
\* commit HEAD leads to, byte for byte.
C6_MessageOfHeadCommit ==
    Quiet => status.Message = commits[HeadCommit].message

C6_Witness ==
    /\ Quiet
    /\ status.Message = <<32, 109, 10>>
    /\ \E c \in DOMAIN commits : commits[c].message # status.Message

\* C7: a step of New or of a query leaves the repository as it was.
C7_QueriesLeaveRepository ==
    [][(pc' # pc \/ calls' # calls) => disk' = disk]_vars

C7_Witness ==
    pc \in {"returned", "panicked"} /\ made > 0 /\ Len(calls) >= 2

\* C8: Report invokes Branch, Files, Message, Tags in this order, each once;
\* a returned Status holds in each field the result of the query of that
\* name; a query that panics is the last one invoked and no Status is
\* returned.
C8_ReportCallsInOrder ==
    /\ Len(calls) <= 4
    /\ \A i \in DOMAIN calls :
          /\ calls[i].query = <<"Branch", "Files", "Message", "Tags">>[i]
          /\ calls[i].panic # "" => (i = Len(calls) /\ pc = "panicked")
    /\ pc = "panicked" => (calls # <<>> /\ calls[Len(calls)].panic # "")
    /\ pc # "returned" => status = NoStatus
    /\ pc = "returned" =>
          /\ Len(calls) = 4
          /\ \A i \in DOMAIN calls :
                /\ calls[i].query = "Branch" => status.Branch = calls[i].value
                /\ calls[i].query = "Files" => status.Files = calls[i].value
                /\ calls[i].query = "Message" => status.Message = calls[i].value
                /\ calls[i].query = "Tags" => status.Tags = calls[i].value

C8_Witness ==
    pc = "panicked" /\ Len(calls) = 2 /\ calls[1].panic = "" /\ calls[2].panic # ""

\* C9 (as claimed): with no command since New and HEAD a merge commit, a
\* path is in Files exactly when its blob differs from the first parent's.
C9_MergeFilesAgainstFirstParent ==
    (Quiet /\ Len(commits[HeadCommit].parents) > 1) =>
        \A p \in Paths :
            p \in Range(status.Files)
            <=> commits[HeadCommit].tree[p] # commits[commits[HeadCommit].parents[1]].tree[p]

\* C10 (as claimed): when commands ran since New and HEAD now resolves to
\* another reference, the Status still describes the captured one: its
\* branch, its commit's message and changed files, and the tags that are on
\* that commit now.
C10_StatusDescribesCapturedHead ==
    (pc = "returned" /\ races > 0 /\ ResolveHead.ref # reporter.head) =>
        /\ status.Branch = (IF HasPrefix(reporter.head.name, refsHeads)
                            THEN TrimPrefix(reporter.head.name, refsHeads)
                            ELSE <<>>)
        /\ Captured \in DOMAIN commits => status.Message = commits[Captured].message
        /\ (/\ Captured \in DOMAIN commits
            /\ Range(commits[Captured].parents) \subseteq DOMAIN commits) =>
              Range(status.Files) = {BaseName(p) : p \in ChangedPaths(Captured)}
        /\ Range(status.Tags) = TagsOn(Captured)

\* ------------------------------------------------------- what does hold

\* Beside C4 and C9: Files is the base names of the paths that differ from
\* the first parent, for merge commits and others alike.
FilesAreBaseNamesAgainstFirstParent ==
    Quiet => Range(status.Files) = {BaseName(p) : p \in ChangedPaths(HeadCommit)}

\* Beside C3 and C10: whatever ran since New, Tags is the names of the tag
\* references that hold the captured commit's hash itself.
TagsAreLightweightOnCaptured ==
    pc = "returned" =>
        Range(status.Tags) =
            {TrimPrefix(n, refsTags) :
                n \in {m \in DOMAIN refs : HasPrefix(m, refsTags)
                                          /\ refs[m] = CommitHash(Captured)}}

====
